---- MODULE Spec2Model ----
(***************************************************************************)
(* A model of the crewai_adapters package: the adapter registry, the two   *)
(* tool adapters (MCPToolsAdapter, CrewAIToolsAdapter), the framework tool *)
(* wrapper ConcreteCrewAITool and ContextProtocolClient.                   *)
(*                                                                         *)
(* Python values are modelled as tagged records, exceptions as the name of *)
(* their class together with str(e).  An operation that raises leaves its  *)
(* outcome in `out` (or `regOut`) with raised # NoRaise.                   *)
(***************************************************************************)
EXTENDS Integers, Sequences, FiniteSets, TLC

VARIABLES
    adapters,   \* AdapterRegistry._adapters : name -> adapter type
    succeeded,  \* history: name -> type of every register call that returned
    regOut,     \* outcome of the last AdapterRegistry call
    adapter,    \* the adapter instance under study (NoAdapter before construction)
    out,        \* outcome of the last call on the adapter or on one of its tools
    listed,     \* history: outcome of the first get_all_tools call on the adapter
    client,     \* the CrewAIAdapterClient instance under study
    clientOut   \* outcome of the last call on the client

vars == <<adapters, succeeded, regOut, adapter, out, listed, client, clientOut>>

(***************************************************************************)
(* Bounds of the model.                                                    *)
(***************************************************************************)
\* longest "tools" list of a configuration
MaxTools == 2
\* longest context string handed to ContextProtocolClient.execute
MaxCtx == 2

(***************************************************************************)
(* Python values.                                                          *)
(***************************************************************************)
\* the key is not in the mapping / the keyword argument was not passed
Absent == "<absent>"
\* Python's None where a string is expected
None == "<None>"
NoRaise == "<no exception>"

PyNone == [type |-> "NoneType"]
PyInt(n) == [type |-> "int", v |-> n]
PyStr(s) == [type |-> "str", v |-> s]
PyDict(d) == [type |-> "dict", v |-> d]

Digits == <<"0", "1", "2", "3", "4", "5", "6", "7", "8", "9">>

\* str(n) of a non-negative int: its decimal digits
RECURSIVE IntToStr(_)
IntToStr(n) ==
    IF n < 10 THEN Digits[n + 1]
    ELSE IntToStr(n \div 10) \o Digits[(n % 10) + 1]

Min(a, b) == IF a < b THEN a ELSE b
Max(a, b) == IF a > b THEN a ELSE b

\* str(x)
Str(x) ==
    CASE x.type = "int" -> IntToStr(x.v)
      [] x.type = "str" -> x.v
      [] x.type = "NoneType" -> "None"
      [] OTHER -> "{...}"

(***************************************************************************)
(* AdapterRegistry (crewai_adapters/base.py).                              *)
(***************************************************************************)
RegNames == {"test", "Test", "basic", "non_existent"}
AdapterTypes == {"MockAdapter", "BasicAdapter"}

EmptyMap == [n \in {} |-> ""]

NoRegOut == [op |-> "none", name |-> "", type |-> "", raised |-> NoRaise,
             result |-> {}]

\* list_adapters(): the registered names
list_adapters == DOMAIN adapters

\* the registry after a register(name, adapter_type) that does not fail
RegistryStore(name, adapter_type) == adapters @@ (name :> adapter_type)

\* register that silently replaces an existing entry
RegisterOverwrites(name, adapter_type) ==
    /\ adapters' = [n \in DOMAIN adapters \cup {name} |->
                        IF n = name THEN adapter_type ELSE adapters[n]]
    /\ succeeded' = succeeded @@ (name :> adapter_type)
    /\ regOut' = [op |-> "register", name |-> name, type |-> adapter_type,
                  raised |-> NoRaise, result |-> {}]
    /\ UNCHANGED <<adapter, out, listed, client, clientOut>>

\* register(name, adapter_type)
Register(name, adapter_type) ==
    /\ IF name \in DOMAIN adapters
       THEN /\ regOut' = [op |-> "register", name |-> name, type |-> adapter_type,
                          raised |-> "AdapterError", result |-> {}]
            /\ UNCHANGED <<adapters, succeeded>>
       ELSE /\ adapters' = RegistryStore(name, adapter_type)
            /\ succeeded' = succeeded @@ (name :> adapter_type)
            /\ regOut' = [op |-> "register", name |-> name, type |-> adapter_type,
                          raised |-> NoRaise, result |-> {}]
    /\ UNCHANGED <<adapter, out, listed, client, clientOut>>

\* what get(name) returns for a registered name
RegistryLookup(name) == adapters[name]

\* lower-case form of a registry name
Fold(name) == IF name = "Test" THEN "test" ELSE name

\* get that compares names without regard to case
GetIgnoresCase(name) ==
    /\ LET hits == {n \in DOMAIN adapters : Fold(n) = Fold(name)}
       IN  IF hits # {}
           THEN regOut' = [op |-> "get", name |-> name,
                           type |-> adapters[CHOOSE n \in hits : TRUE],
                           raised |-> NoRaise, result |-> {}]
           ELSE regOut' = [op |-> "get", name |-> name, type |-> "",
                           raised |-> "AdapterError", result |-> {}]
    /\ UNCHANGED <<adapters, succeeded, adapter, out, listed, client, clientOut>>

\* get(name)
Get(name) ==
    /\ IF name \in DOMAIN adapters
       THEN regOut' = [op |-> "get", name |-> name, type |-> RegistryLookup(name),
                       raised |-> NoRaise, result |-> {}]
       ELSE regOut' = [op |-> "get", name |-> name, type |-> "",
                       raised |-> "AdapterError", result |-> {}]
    /\ UNCHANGED <<adapters, succeeded, adapter, out, listed, client, clientOut>>

\* list_adapters()
ListAdapters ==
    /\ regOut' = [op |-> "list_adapters", name |-> "", type |-> "",
                  raised |-> NoRaise, result |-> list_adapters]
    /\ UNCHANGED <<adapters, succeeded, adapter, out, listed, client, clientOut>>

NoAdapter == [cls |-> "none"]
NoOut == [op |-> "none", raised |-> NoRaise]

\* CrewAIAdapterClient.__init__ and __aenter__: an empty exit stack, no
\* sessions, no cached tools. History: calls counts the register_adapter and
\* connect_to_mcp_server calls made, order lists the names in the order they
\* were first cached, opened counts the resources entered on the exit stack
\* and released holds those the exit stack has closed
NewClient ==
    [exit_stack |-> <<>>, sessions |-> {}, tools |-> <<>>, phase |-> "entered",
     calls |-> 0, order |-> <<>>, opened |-> 0, released |-> {}]

InitRegistry ==
    /\ adapters = EmptyMap
    /\ succeeded = EmptyMap
    /\ regOut = NoRegOut
    /\ adapter = NoAdapter
    /\ out = NoOut
    /\ listed = NoOut
    /\ client = NewClient
    /\ clientOut = NoOut

NextRegistry ==
    \/ \E name \in RegNames, t \in AdapterTypes : Register(name, t)
    \/ \E name \in RegNames : Get(name)
    \/ ListAdapters

SpecRegistry == InitRegistry /\ [][NextRegistry]_vars

(***************************************************************************)
(* Claims about the registry.                                              *)
(***************************************************************************)
\* the registry holds exactly the names whose register returned, each with
\* the type it was first registered with
RegistryIsSucceeded ==
    /\ list_adapters = DOMAIN succeeded
    /\ \A n \in DOMAIN succeeded : adapters[n] = succeeded[n]

\* a register of a name that is already present fails and changes nothing
DuplicateRegisterStep ==
    (regOut'.op = "register" /\ regOut'.name \in DOMAIN adapters)
        => /\ regOut'.raised = "AdapterError"
           /\ adapters' = adapters

\* a register that fails is a register of a name that was present
FailedRegisterStep ==
    (regOut'.op = "register" /\ regOut'.raised = "AdapterError")
        => /\ regOut'.name \in DOMAIN adapters
           /\ adapters' = adapters

\* C1: register(name, adapter_type) fails with AdapterError whenever name is
\* already registered, the failed call leaves the registry unchanged (get
\* still returns the original type, list_adapters the same names), and
\* list_adapters() is exactly the set of names whose register succeeded.
C1_RegisterDuplicateFails ==
    /\ []RegistryIsSucceeded
    /\ [][DuplicateRegisterStep /\ FailedRegisterStep]_vars

\* a duplicate register has failed on a registry holding two names
C1_Witness ==
    /\ regOut.op = "register"
    /\ regOut.raised = "AdapterError"
    /\ regOut.name \in list_adapters
    /\ regOut.type # adapters[regOut.name]
    /\ Cardinality(list_adapters) = 2

\* C2: get(name) returns the type registered under exactly that name
\* (case-sensitive), fails with AdapterError for every name never
\* successfully registered, and a failed get does not add the name.
C2_GetExactName ==
    regOut.op = "get" =>
        IF regOut.name \in DOMAIN succeeded
        THEN regOut.raised = NoRaise /\ regOut.type = succeeded[regOut.name]
        ELSE regOut.raised = "AdapterError" /\ regOut.name \notin list_adapters

\* get("Test") has failed while "test" is registered
C2_Witness ==
    /\ regOut.op = "get"
    /\ regOut.name = "Test"
    /\ regOut.raised = "AdapterError"
    /\ "test" \in list_adapters
    /\ "Test" \notin list_adapters


(***************************************************************************)
(* Configurations (AdapterConfig, crewai_adapters/types.py).               *)
(* A configuration is a dict; the model fixes the keys the adapters read   *)
(* and marks a key the dict lacks with AbsentV.                            *)
(***************************************************************************)
AbsentV == [type |-> "absent"]
PyList(items) == [type |-> "list", v |-> items]

\* d.get(key): None when the key is absent
DictGet(x) == IF x.type = "absent" THEN PyNone ELSE x

\* d.get(key, default)
DictGetDefault(x, default) == IF x.type = "absent" THEN default ELSE x

\* bool(x)
Truthy(x) ==
    CASE x.type = "NoneType" -> FALSE
      [] x.type = "int" -> x.v # 0
      [] x.type = "str" -> x.v # ""
      [] x.type = "list" -> Len(x.v) > 0
      [] x.type = "dict" -> x.v # {}
      [] OTHER -> TRUE

\* iter(x) succeeds
Iterable(x) == x.type \in {"list", "str", "dict"}

ToolNames == {"add", "multiply"}

\* the callables a "func" entry may hold: def / async def of (a, b), returning
\* a + b or a * b, or raising ValueError("boom")
Func(is_async, body) == [type |-> "function", is_async |-> is_async, body |-> body]
AddAsync == Func(TRUE, "add")
AddSync == Func(FALSE, "add")
MultiplyAsync == Func(TRUE, "multiply")
RaiseAsync == Func(TRUE, "raise")

ParamsAB == PyDict({"a", "b"})
EmptyDict == PyDict({})
BadParams == PyStr("not a mapping")

Entry(name, description, parameters, func) ==
    [name |-> name, description |-> description, parameters |-> parameters,
     func |-> func]

\* entries of a "tools" list: well-formed ones with an async, a sync, a raising
\* and no func, one without "name", one whose "parameters" is not a mapping,
\* and one with a name only
ToolEntries ==
    {Entry(PyStr("add"), PyStr("Add two numbers"), ParamsAB, AddAsync),
     Entry(PyStr("add"), PyStr("Add two numbers"), ParamsAB, AddSync),
     Entry(PyStr("add"), PyStr("Add two numbers"), ParamsAB, RaiseAsync),
     Entry(PyStr("multiply"), PyStr("Multiply two numbers"), ParamsAB, MultiplyAsync),
     Entry(PyStr("multiply"), PyStr("Multiply two numbers"), ParamsAB, AbsentV),
     Entry(AbsentV, PyStr("Add two numbers"), ParamsAB, AddAsync),
     Entry(PyStr("add"), PyStr("Add two numbers"), BadParams, AddAsync),
     Entry(PyStr("multiply"), AbsentV, AbsentV, AbsentV)}

RECURSIVE SeqsUpTo(_, _)
\* the sequences over S of length at most n
SeqsUpTo(S, n) ==
    IF n = 0 THEN {<<>>}
    ELSE LET shorter == SeqsUpTo(S, n - 1)
         IN  shorter \cup {Append(q, x) : q \in {r \in shorter : Len(r) = n - 1}, x \in S}

\* values of config["tools"]: absent, None, 0, a non-zero int, or a list
ToolsValues ==
    {AbsentV, PyNone, PyInt(0), PyInt(5)}
    \cup {PyList(items) : items \in SeqsUpTo(ToolEntries, MaxTools)}

ToolConfigs ==
    [tools : ToolsValues, model_name : {AbsentV}, context_size : {AbsentV}]

ContextConfigs ==
    [tools : {AbsentV},
     model_name : {AbsentV, PyStr("gpt")},
     context_size : {AbsentV, PyStr("4k")} \cup {PyInt(n) : n \in -1..MaxCtx}]

(***************************************************************************)
(* Outcomes of a call.                                                     *)
(***************************************************************************)
NoResponse == [type |-> "NoResponse"]
NoInput == [tool_name |-> AbsentV, parameters |-> AbsentV]

Returned(op, input, value) ==
    [op |-> op, input |-> input, raised |-> NoRaise, msg |-> "", value |-> value]

Raised(op, input, exc, msg) ==
    [op |-> op, input |-> input, raised |-> exc, msg |-> msg, value |-> NoResponse]

\* AdapterResponse (crewai_adapters/types.py)
AdapterResponse(success, data, error, metadata) ==
    [type |-> "AdapterResponse", success |-> success, data |-> data,
     error |-> error, metadata |-> metadata]

\* the readings of time.time() during one execute call: at its entry and
\* when the response's metadata is built
ClockReadings == {[start |-> 0, now |-> n] : n \in 0..1}

\* datetime.isoformat() of a clock reading
isoformat(now) == "1970-01-01T00:00:0" \o IntToStr(now)

\* create_metadata(source, start_time, additional_data) (crewai_adapters/utils.py),
\* called when the clock reads now: the time elapsed since start_time, none
\* when start_time is None
create_metadata(source, start_time, now, additional_data) ==
    [type |-> "dict", timestamp |-> isoformat(now),
     duration |-> IF start_time = PyNone THEN 0 ELSE now - start_time.v,
     source |-> source, additional_data |-> additional_data]

NoData == [tool |-> None, parameters |-> AbsentV, error |-> None, model |-> None]

(***************************************************************************)
(* Tool adapters: construction (crewai_adapters/tools.py).                 *)
(***************************************************************************)
ToolAdapterClasses == {"MCPToolsAdapter", "CrewAIToolsAdapter"}

\* _validate_config of both tool adapters: the exception it raises, or NoRaise
validate_config(config) ==
    IF ~Truthy(DictGet(config.tools)) THEN "ConfigurationError" ELSE NoRaise

\* MCPTool(name=..., description=..., inputSchema=...) validates its fields:
\* inputSchema must be a mapping
MCPToolValid(tool_config) ==
    DictGetDefault(tool_config.parameters, EmptyDict).type = "dict"

\* CrewAITool(name=..., ...) : a dataclass, nothing is validated
CrewAITool(tool_config) ==
    [name |-> tool_config.name.v,
     description |-> DictGetDefault(tool_config.description, PyStr("")),
     parameters |-> DictGetDefault(tool_config.parameters, EmptyDict),
     func |-> DictGet(tool_config.func)]

MCPTool(tool_config) ==
    [name |-> tool_config.name.v,
     description |-> DictGetDefault(tool_config.description, PyStr("")),
     inputSchema |-> DictGetDefault(tool_config.parameters, EmptyDict)]

\* one pass of the loop body of CrewAIToolsAdapter._register_tools
CrewAI_register_one(tool_config) ==
    IF tool_config.name.type = "absent"
    THEN \* KeyError('name'), caught; the handler logs tool_config.get('name')
         [kind |-> "skipped"]
    ELSE [kind |-> "added", tool |-> CrewAITool(tool_config)]

\* one pass of the loop body of MCPToolsAdapter._register_tools
MCP_register_one(tool_config) ==
    IF tool_config.name.type = "absent"
    THEN \* KeyError('name'), caught; the handler evaluates tool_config['name']
         \* for its log line, which raises KeyError again, out of the loop
         [kind |-> "raise", exc |-> "KeyError", msg |-> "'name'"]
    ELSE IF ~MCPToolValid(tool_config)
    THEN \* pydantic's ValidationError, caught and logged
         [kind |-> "skipped"]
    ELSE [kind |-> "added", tool |-> MCPTool(tool_config)]

register_one(cls, tool_config) ==
    IF cls = "MCPToolsAdapter" THEN MCP_register_one(tool_config)
    ELSE CrewAI_register_one(tool_config)

RECURSIVE register_from(_, _, _)
\* the for loop of _register_tools over the entries left, self.tools being acc
register_from(cls, items, acc) ==
    IF items = <<>> THEN [raised |-> NoRaise, msg |-> "", tools |-> acc]
    ELSE LET r == register_one(cls, Head(items))
         IN  CASE r.kind = "added" ->
                    register_from(cls, Tail(items), Append(acc, r.tool))
               [] r.kind = "skipped" -> register_from(cls, Tail(items), acc)
               [] OTHER -> [raised |-> r.exc, msg |-> r.msg, tools |-> acc]

\* _register_tools: iterates config.get("tools", [])
register_tools(cls, config) ==
    LET tools == DictGetDefault(config.tools, PyList(<<>>))
    IN  IF ~Iterable(tools)
        THEN [raised |-> "TypeError",
              msg |-> "'" \o tools.type \o "' object is not iterable", tools |-> <<>>]
        ELSE register_from(cls, tools.v, <<>>)

\* __init__ of a tool adapter: BaseAdapter.__init__ validates, then the tools
\* are registered; the outcome of the constructor call
ToolAdapterInit(cls, config) ==
    IF validate_config(config) # NoRaise
    THEN [raised |-> validate_config(config),
          msg |-> "Tools configuration is required", tools |-> <<>>]
    ELSE register_tools(cls, config)

\* cls(config) for a tool adapter class
ConstructToolAdapter(cls, config) ==
    /\ adapter = NoAdapter
    /\ LET r == ToolAdapterInit(cls, config)
           input == [cls |-> cls, config |-> config]
       IN  IF r.raised # NoRaise
           THEN /\ out' = Raised("construct", input, r.raised, r.msg)
                /\ UNCHANGED adapter
           ELSE /\ adapter' = [cls |-> cls, config |-> config, tools |-> r.tools]
                /\ out' = Returned("construct", input, NoResponse)
    /\ UNCHANGED <<adapters, succeeded, regOut, listed, client, clientOut>>

(***************************************************************************)
(* Calling a tool function: func(parameters as keywords) and await.                  *)
(***************************************************************************)
KwArgs(keys, a, b) == [type |-> "dict", keys |-> keys, a |-> a, b |-> b]

\* keyword arguments of a call: {a: 3, b: 5}, {a: 4, b: 6}, {} and {x: 1}
KwArgsSet ==
    {KwArgs({"a", "b"}, 3, 5), KwArgs({"a", "b"}, 4, 6),
     KwArgs({}, 0, 0), KwArgs({"x"}, 1, 0)}

\* the body of a tool function run to its end
RunBody(func, kw) ==
    CASE func.body = "add" -> [kind |-> "value", v |-> PyInt(kw.a + kw.b)]
      [] func.body = "multiply" -> [kind |-> "value", v |-> PyInt(kw.a * kw.b)]
      [] OTHER -> [kind |-> "raise", exc |-> "ValueError", msg |-> "boom"]

\* func(kw as keywords): binding the arguments fails with TypeError; a def runs its
\* body; an async def returns a coroutine that has not started
Invoke(func, kw) ==
    IF kw.keys # {"a", "b"}
    THEN [kind |-> "raise", exc |-> "TypeError",
          msg |-> IF kw.keys = {} THEN "missing 2 required positional arguments: 'a' and 'b'"
                  ELSE "got an unexpected keyword argument 'x'"]
    ELSE IF func.is_async THEN [kind |-> "coroutine", func |-> func, kw |-> kw]
    ELSE RunBody(func, kw)

\* await x, x the outcome of the call expression
Await(x) ==
    CASE x.kind = "raise" -> x
      [] x.kind = "coroutine" -> RunBody(x.func, x.kw)
      [] OTHER -> [kind |-> "raise", exc |-> "TypeError",
                   msg |-> "object " \o x.v.type \o " can't be used in 'await' expression"]

(***************************************************************************)
(* Tool adapters: execute (crewai_adapters/tools.py).                      *)
(***************************************************************************)
ExecNames == ToolNames \cup {"nonexistent", ""}

\* the tool_name keyword of execute
ToolNameArgs == {AbsentV} \cup {PyStr(n) : n \in ExecNames}

\* the parameters keyword of execute: not passed, which execute reads as {},
\* or a non-empty dict
ParameterArgs == {AbsentV} \cup {kw \in KwArgsSet : kw.keys # {}}

\* a lookup that falls back to the first tool when none has the name
FindToolDefaultsToFirst(tools, tool_name) ==
    LET hits == {i \in 1..Len(tools) : tools[i].name = tool_name.v}
    IN  IF hits = {} THEN Min(1, Len(tools))
        ELSE CHOOSE i \in hits : \A j \in hits : i <= j

\* next((t for t in self.tools if t.name == tool_name), None): the index of
\* the first tool of that name, 0 for None
FindTool(tools, tool_name) ==
    LET hits == {i \in 1..Len(tools) : tools[i].name = tool_name.v}
    IN  IF hits = {} THEN 0 ELSE CHOOSE i \in hits : \A j \in hits : i <= j

\* the reply to an absent or empty tool_name: a failed response
MissingNameReturns(cls) ==
    [raised |-> NoRaise, msg |-> "",
     value |-> AdapterResponse(FALSE, PyNone, "Tool name is required",
                               create_metadata(cls, PyNone, 0, NoData))]

\* the reply to an absent or empty tool_name: ConfigurationError
MissingName(cls) ==
    [raised |-> "ConfigurationError", msg |-> "Tool name is required",
     value |-> NoResponse]

\* a not-found response that carries no metadata
NotFoundWithoutMetadata(cls, tool_name, t) ==
    AdapterResponse(FALSE, PyNone, "Tool " \o tool_name.v \o " not found", PyNone)

\* the response to a tool_name no registered tool has
NotFound(cls, tool_name, t) ==
    AdapterResponse(FALSE, PyNone, "Tool " \o tool_name.v \o " not found",
                    create_metadata(cls, PyInt(t.start), t.now, NoData))

\* an except branch that leaves the error out of the response
CaughtWithoutError(cls, tool_name, msg, t) ==
    AdapterResponse(FALSE, PyNone, None,
        create_metadata(cls, PyInt(t.start), t.now,
            [NoData EXCEPT !.tool = tool_name.v, !.error = msg]))

\* an except branch whose metadata names neither the tool nor the error
CaughtPlainMetadata(cls, tool_name, msg, t) ==
    AdapterResponse(FALSE, PyNone, msg,
        create_metadata(cls, PyInt(t.start), t.now, NoData))

\* the response built by the except branch of execute:
\* AdapterResponse(success=False, error=str(e), metadata=error_metadata)
Caught(cls, tool_name, msg, t) ==
    AdapterResponse(FALSE, PyNone, msg,
        create_metadata(cls, PyInt(t.start), t.now,
            [NoData EXCEPT !.tool = tool_name.v, !.error = msg]))

\* MCPToolsAdapter.execute(tool_name=..., parameters=...)
MCP_execute(self, tool_name_kw, parameters_kw, t) ==
    LET tool_name == DictGet(tool_name_kw)
        parameters == DictGetDefault(parameters_kw, KwArgs({}, 0, 0))
        i == FindTool(self.tools, tool_name)
    IN  IF ~Truthy(tool_name) THEN MissingName(self.cls)
        ELSE IF i = 0
        THEN [raised |-> NoRaise, msg |-> "", value |-> NotFound(self.cls, tool_name, t)]
        ELSE [raised |-> NoRaise, msg |-> "",
              value |-> AdapterResponse(TRUE, PyStr("Executed MCP tool successfully"),
                            None,
                            create_metadata(self.cls, PyInt(t.start), t.now,
                                [NoData EXCEPT !.tool = tool_name.v,
                                               !.parameters = parameters]))]

\* the call of the tool's function inside CrewAIToolsAdapter.execute
CrewAI_call(func, parameters) == Await(Invoke(func, parameters))

\* CrewAIToolsAdapter.execute(tool_name=..., parameters=...)
CrewAI_execute(self, tool_name_kw, parameters_kw, t) ==
    LET tool_name == DictGet(tool_name_kw)
        parameters == DictGetDefault(parameters_kw, KwArgs({}, 0, 0))
        i == FindTool(self.tools, tool_name)
        metadata == create_metadata(self.cls, PyInt(t.start), t.now,
                        [NoData EXCEPT !.tool = tool_name.v, !.parameters = parameters])
    IN  IF ~Truthy(tool_name) THEN MissingName(self.cls)
        ELSE IF i = 0
        THEN [raised |-> NoRaise, msg |-> "", value |-> NotFound(self.cls, tool_name, t)]
        ELSE IF ~Truthy(self.tools[i].func)
        THEN [raised |-> NoRaise, msg |-> "",
              value |-> AdapterResponse(FALSE, PyNone, "Tool function not implemented",
                                        metadata)]
        ELSE LET r == CrewAI_call(self.tools[i].func, parameters)
             IN  IF r.kind = "value"
                 THEN [raised |-> NoRaise, msg |-> "",
                       value |-> AdapterResponse(TRUE, r.v, None, metadata)]
                 ELSE [raised |-> NoRaise, msg |-> "",
                       value |-> Caught(self.cls, tool_name, r.msg, t)]

tool_execute(self, tool_name_kw, parameters_kw, t) ==
    IF self.cls = "MCPToolsAdapter" THEN MCP_execute(self, tool_name_kw, parameters_kw, t)
    ELSE CrewAI_execute(self, tool_name_kw, parameters_kw, t)

\* an execute that takes the tool it ran out of self.tools
ExecuteConsumesTool(tool_name_kw, parameters_kw, t) ==
    /\ adapter.cls \in ToolAdapterClasses
    /\ LET r == tool_execute(adapter, tool_name_kw, parameters_kw, t)
           input == [tool_name |-> tool_name_kw, parameters |-> parameters_kw]
           i == FindTool(adapter.tools, DictGet(tool_name_kw))
       IN  /\ out' = IF r.raised # NoRaise
                     THEN Raised("execute", input, r.raised, r.msg)
                     ELSE Returned("execute", input, r.value)
           /\ adapter' = IF Truthy(DictGet(tool_name_kw)) /\ i # 0
                         THEN [adapter EXCEPT
                                  !.tools = SubSeq(@, 1, i - 1) \o SubSeq(@, i + 1, Len(@))]
                         ELSE adapter
    /\ UNCHANGED <<adapters, succeeded, regOut, listed, client, clientOut>>

\* await adapter.execute(tool_name=..., parameters=...) on a tool adapter
Execute(tool_name_kw, parameters_kw, t) ==
    /\ adapter.cls \in ToolAdapterClasses
    /\ LET r == tool_execute(adapter, tool_name_kw, parameters_kw, t)
           input == [tool_name |-> tool_name_kw, parameters |-> parameters_kw]
       IN  out' = IF r.raised # NoRaise
                  THEN Raised("execute", input, r.raised, r.msg)
                  ELSE Returned("execute", input, r.value)
    /\ UNCHANGED <<adapters, succeeded, regOut, adapter, listed, client, clientOut>>

(***************************************************************************)
(* Tool adapters: conversion to framework tools (crewai_adapters/tools.py).*)
(***************************************************************************)
\* ConcreteCrewAITool(name, description, execution_func, args_schema)
ConcreteCrewAITool(name, description, execution_func) ==
    [type |-> "ConcreteCrewAITool", name |-> name, description |-> description,
     args_schema |-> "ToolInputSchema", execution_func |-> execution_func]

\* x or ""
OrEmpty(x) == IF Truthy(x) THEN x ELSE PyStr("")

\* MCPToolsAdapter.convert_to_crewai_tool
MCP_convert_to_crewai_tool(mcp_tool) ==
    [kind |-> "value",
     v |-> ConcreteCrewAITool(mcp_tool.name, OrEmpty(mcp_tool.description),
               [type |-> "tool_executor", tool_name |-> mcp_tool.name])]

\* CrewAIToolsAdapter.convert_to_crewai_tool
CrewAI_convert_to_crewai_tool(crewai_tool) ==
    IF ~Truthy(crewai_tool.func)
    THEN [kind |-> "raise", exc |-> "ConfigurationError",
          msg |-> "Tool " \o crewai_tool.name \o " has no execution function"]
    ELSE [kind |-> "value",
          v |-> ConcreteCrewAITool(crewai_tool.name, crewai_tool.description,
                                   crewai_tool.func)]

convert_to_crewai_tool(cls, tool) ==
    IF cls = "MCPToolsAdapter" THEN MCP_convert_to_crewai_tool(tool)
    ELSE CrewAI_convert_to_crewai_tool(tool)

RECURSIVE convert_from(_, _, _)
\* the list comprehension of get_all_tools over the tools left
convert_from(cls, tools, acc) ==
    IF tools = <<>> THEN [raised |-> NoRaise, msg |-> "", value |-> acc]
    ELSE LET r == convert_to_crewai_tool(cls, Head(tools))
         IN  IF r.kind = "raise"
             THEN [raised |-> r.exc, msg |-> r.msg, value |-> <<>>]
             ELSE convert_from(cls, Tail(tools), Append(acc, r.v))

\* get_all_tools()
get_all_tools(self) == convert_from(self.cls, self.tools, <<>>)

\* a get_all_tools that hands its tools out once, leaving none registered
GetAllToolsDrains ==
    /\ adapter.cls \in ToolAdapterClasses
    /\ LET r == get_all_tools(adapter)
       IN  out' = IF r.raised # NoRaise
                  THEN Raised("get_all_tools", NoInput, r.raised, r.msg)
                  ELSE Returned("get_all_tools", NoInput, r.value)
    /\ adapter' = [adapter EXCEPT !.tools = <<>>]
    /\ UNCHANGED <<adapters, succeeded, regOut, client, clientOut>>

\* adapter.get_all_tools() on a tool adapter
GetAllTools ==
    /\ adapter.cls \in ToolAdapterClasses
    /\ LET r == get_all_tools(adapter)
       IN  out' = IF r.raised # NoRaise
                  THEN Raised("get_all_tools", NoInput, r.raised, r.msg)
                  ELSE Returned("get_all_tools", NoInput, r.value)
    /\ UNCHANGED <<adapters, succeeded, regOut, adapter, client, clientOut>>

\* the body of tool_executor after `result = await self.execute(...)`: the
\* data of a successful response; ExecutionError for a failed response and,
\* through the except clause, for an exception of execute
executor_outcome(name, result) ==
    IF result.raised # NoRaise
    THEN [kind |-> "raise", exc |-> "ExecutionError",
          msg |-> "Failed to execute " \o name \o ": " \o result.msg]
    ELSE IF result.value.success
    THEN [kind |-> "value", v |-> PyStr(Str(result.value.data))]
    ELSE [kind |-> "raise", exc |-> "ExecutionError",
          msg |-> "Failed to execute " \o name \o ": " \o
                  (IF result.value.error = None THEN "Unknown error"
                   ELSE result.value.error)]

\* tool_executor(kwargs), the closure MCPToolsAdapter gives its tools
tool_executor(self, name, kw, t) ==
    executor_outcome(name, MCP_execute(self, PyStr(name), kw, t))

\* await self._execution_func(kwargs) in ConcreteCrewAITool._run
call_execution_func(self, tool, kw, t) ==
    IF tool.execution_func.type = "tool_executor"
    THEN tool_executor(self, tool.execution_func.tool_name, kw, t)
    ELSE Await(Invoke(tool.execution_func, kw))

\* a _run that lets the exception of the wrapped function through
run_propagates(self, tool, kw, t) ==
    LET r == call_execution_func(self, tool, kw, t)
    IN  IF r.kind = "value"
        THEN [raised |-> NoRaise, msg |-> "", value |-> PyStr(Str(r.v))]
        ELSE [raised |-> r.exc, msg |-> r.msg, value |-> NoResponse]

\* ConcreteCrewAITool._run(kwargs): str(result), or ExecutionError
run(self, tool, kw, t) ==
    LET r == call_execution_func(self, tool, kw, t)
    IN  IF r.kind = "value"
        THEN [raised |-> NoRaise, msg |-> "", value |-> PyStr(Str(r.v))]
        ELSE [raised |-> "ExecutionError",
              msg |-> "Failed to execute " \o tool.name \o ": " \o r.msg,
              value |-> NoResponse]

\* invoking the i-th tool object that get_all_tools produced; the wrappers
\* keep nothing of a response's metadata, so the outcome is the same for
\* every reading of the clock
RunTool(i, kw) ==
    /\ adapter.cls \in ToolAdapterClasses
    /\ get_all_tools(adapter).raised = NoRaise
    /\ i \in 1..Len(get_all_tools(adapter).value)
    /\ LET tool == get_all_tools(adapter).value[i]
           t == CHOOSE reading \in ClockReadings : TRUE
           r == run(adapter, tool, kw, t)
           input == [tool_name |-> PyStr(tool.name), parameters |-> kw, index |-> i]
       IN  out' = IF r.raised # NoRaise
                  THEN Raised("run", input, r.raised, r.msg)
                  ELSE Returned("run", input, r.value)
    /\ UNCHANGED <<adapters, succeeded, regOut, adapter, listed, client, clientOut>>

(***************************************************************************)
(* ContextProtocolClient (crewai_adapters/context_protocol.py).            *)
(***************************************************************************)
\* s[:n] of a str or a list
PySliceTo(s, n) ==
    IF n >= 0 THEN SubSeq(s, 1, Min(n, Len(s)))
    ELSE SubSeq(s, 1, Max(Len(s) + n, 0))

\* ContextProtocolClient._validate_config
Context_validate_config(config) ==
    IF config.model_name.type = "absent"
    THEN [raised |-> "ConfigurationError", msg |-> "Missing required field: model_name"]
    ELSE IF config.context_size.type = "absent"
    THEN [raised |-> "ConfigurationError", msg |-> "Missing required field: context_size"]
    ELSE IF config.context_size.type # "int"
    THEN [raised |-> "ConfigurationError", msg |-> "context_size must be an integer"]
    ELSE [raised |-> NoRaise, msg |-> ""]

\* ContextProtocolClient(config)
ConstructContextClient(config) ==
    /\ adapter = NoAdapter
    /\ LET r == Context_validate_config(config)
           input == [cls |-> "ContextProtocolClient", config |-> config]
       IN  IF r.raised # NoRaise
           THEN /\ out' = Raised("construct", input, r.raised, r.msg)
                /\ UNCHANGED adapter
           ELSE /\ adapter' = [cls |-> "ContextProtocolClient", config |-> config,
                               tools |-> <<>>]
                /\ out' = Returned("construct", input, NoResponse)
    /\ UNCHANGED <<adapters, succeeded, regOut, listed, client, clientOut>>

Alphabet == "abcdefghijklmnopqrstuvwxyz"

\* the context keyword of execute: a string, or a value that cannot be sliced
ContextArgs ==
    {AbsentV, PyInt(7)} \cup {PyStr(SubSeq(Alphabet, 1, n)) : n \in 0..MaxCtx}

\* the messages keyword of execute
MessageArgs == {AbsentV, PyList(<<"m1", "m2">>)}

\* the start_time keyword of execute: not passed, or an earlier clock reading
StartTimeArgs == {AbsentV} \cup {PyInt(t.start) : t \in ClockReadings}

\* ContextProtocolClient._process_context
process_context(self, context, messages) ==
    IF context.type \notin {"str", "list"}
    THEN [kind |-> "raise", exc |-> "TypeError",
          msg |-> "'" \o context.type \o "' object is not subscriptable"]
    ELSE [kind |-> "value",
          v |-> PyDict([model |-> self.config.model_name.v,
                        context |-> PySliceTo(context.v, self.config.context_size.v),
                        messages |-> PySliceTo(messages.v, self.config.context_size.v),
                        original_context_length |-> Len(context.v),
                        truncated |-> Len(context.v) > self.config.context_size.v])]

\* ContextProtocolClient.execute(context=..., messages=...)
Context_execute(self, context_kw, messages_kw, start_time_kw, now) ==
    LET context == DictGetDefault(context_kw, PyStr(""))
        messages == DictGetDefault(messages_kw, PyList(<<>>))
        start_time == DictGetDefault(start_time_kw, PyNone)
        r == process_context(self, context, messages)
    IN  IF r.kind = "value"
        THEN AdapterResponse(TRUE, r.v, None,
                 create_metadata(self.cls, start_time, now,
                     [NoData EXCEPT !.model = self.config.model_name.v]))
        ELSE AdapterResponse(FALSE, PyNone, r.msg, PyNone)

\* await client.execute(context=..., messages=...)
ExecuteContext(context_kw, messages_kw, start_time_kw, now) ==
    /\ adapter.cls = "ContextProtocolClient"
    /\ out' = Returned("execute",
                  [tool_name |-> AbsentV, parameters |-> AbsentV,
                   context |-> context_kw, messages |-> messages_kw,
                   start_time |-> start_time_kw],
                  Context_execute(adapter, context_kw, messages_kw, start_time_kw, now))
    /\ UNCHANGED <<adapters, succeeded, regOut, adapter, listed, client, clientOut>>

(***************************************************************************)
(* The adapters' specification.                                            *)
(***************************************************************************)
Init == InitRegistry

Next ==
    \/ /\ adapter = NoAdapter
       /\ \E cls \in ToolAdapterClasses, config \in ToolConfigs :
            ConstructToolAdapter(cls, config)
    \/ /\ adapter = NoAdapter
       /\ \E config \in ContextConfigs : ConstructContextClient(config)
    \/ \E tool_name \in ToolNameArgs, parameters \in ParameterArgs,
          t \in ClockReadings : Execute(tool_name, parameters, t)
    \/ GetAllTools /\ UNCHANGED listed
    \/ \E i \in 1..MaxTools, kw \in KwArgsSet : RunTool(i, kw)
    \/ \E context \in ContextArgs, messages \in MessageArgs,
          start_time \in StartTimeArgs, t \in ClockReadings :
            ExecuteContext(context, messages, start_time, t.now)

Spec == Init /\ [][Next]_vars

(***************************************************************************)
(* The tool adapters with the history of their get_all_tools calls.        *)
(***************************************************************************)
\* the history of get_all_tools outcomes: the first one, and whether there
\* has been a later one
Listed(first, again) == [first |-> first, again |-> again]

\* the history after a get_all_tools call
RecordListing ==
    listed' = IF listed = NoOut THEN Listed(out', FALSE)
              ELSE Listed(listed.first, TRUE)

\* "tools" lists of entries with an async, a raising and no func
ListingConfigs ==
    {c \in ToolConfigs :
        /\ c.tools.type = "list"
        /\ \A i \in 1..Len(c.tools.v) :
              c.tools.v[i] \in
                {Entry(PyStr("add"), PyStr("Add two numbers"), ParamsAB, AddAsync),
                 Entry(PyStr("add"), PyStr("Add two numbers"), ParamsAB, RaiseAsync),
                 Entry(PyStr("multiply"), PyStr("Multiply two numbers"), ParamsAB,
                       MultiplyAsync),
                 Entry(PyStr("multiply"), PyStr("Multiply two numbers"), ParamsAB,
                       AbsentV)}}

NextListing ==
    \/ /\ adapter = NoAdapter
       /\ \E cls \in ToolAdapterClasses, config \in ListingConfigs :
            ConstructToolAdapter(cls, config)
    \/ \E tool_name \in ToolNameArgs, parameters \in ParameterArgs,
          t \in ClockReadings : Execute(tool_name, parameters, t)
    \/ GetAllTools /\ RecordListing
    \/ \E i \in 1..MaxTools, kw \in KwArgsSet : RunTool(i, kw)

SpecListing == Init /\ [][NextListing]_vars

(***************************************************************************)
(* CrewAIAdapterClient (crewai_adapters/client.py).                        *)
(***************************************************************************)
\* register_adapter and connect_to_mcp_server calls made on one client
MaxCalls == 3

\* names adapters and servers are registered under
ServerNames == {"math", ""}

ToolsConfig(items) ==
    [tools |-> PyList(items), model_name |-> AbsentV, context_size |-> AbsentV]

\* the configuration of examples/math_example.py: add and multiply, each with
\* name, description and parameters and without func
ExampleConfig ==
    ToolsConfig(<<Entry(PyStr("add"), PyStr("Add two numbers"), ParamsAB, AbsentV),
                  Entry(PyStr("multiply"), PyStr("Multiply two numbers"), ParamsAB,
                        AbsentV)>>)

\* the same two tools, each with an async func
FuncConfig ==
    ToolsConfig(<<Entry(PyStr("add"), PyStr("Add two numbers"), ParamsAB, AddAsync),
                  Entry(PyStr("multiply"), PyStr("Multiply two numbers"), ParamsAB,
                        MultiplyAsync)>>)

\* a single tool with an async func
OneToolConfig ==
    ToolsConfig(<<Entry(PyStr("add"), PyStr("Add two numbers"), ParamsAB, AddAsync)>>)

\* config=None, the default of register_adapter: a configuration without keys
NoConfig == [tools |-> AbsentV, model_name |-> AbsentV, context_size |-> AbsentV]

ClientConfigs == {ExampleConfig, FuncConfig, OneToolConfig, NoConfig}

\* self.tools is a dict, which keeps its keys in insertion order: a sequence
\* of items [key, value]
dict_keys(d) == {d[i].key : i \in DOMAIN d}

\* d[key] = value that moves a key it already has to the end
dict_setitem_reinserts(d, key, value) ==
    Append(SelectSeq(d, LAMBDA e : e.key # key), [key |-> key, value |-> value])

\* d[key] = value: a new key goes to the end, a key the dict has keeps its place
dict_setitem(d, key, value) ==
    IF key \in dict_keys(d)
    THEN [i \in DOMAIN d |-> IF d[i].key = key THEN [key |-> key, value |-> value]
                             ELSE d[i]]
    ELSE Append(d, [key |-> key, value |-> value])

\* d.get(key, default)
dict_get(d, key, default) ==
    IF key \in dict_keys(d) THEN d[CHOOSE i \in DOMAIN d : d[i].key = key].value
    ELSE default

RECURSIVE dict_values_flat(_)
\* [tool for tools in d.values() for tool in tools]
dict_values_flat(d) ==
    IF d = <<>> THEN <<>> ELSE Head(d).value \o dict_values_flat(Tail(d))

\* the tool objects a call creates: object identity is the call that made the
\* object and its place in the list
ToolObjects(tools, call) ==
    [i \in 1..Len(tools) |-> [tool |-> tools[i], id |-> <<call, i>>]]

\* register_adapter(name, config): the exception raised and the client after it
register_adapter(self, name, config) ==
    LET init == ToolAdapterInit("CrewAIToolsAdapter", config)
        new == [cls |-> "CrewAIToolsAdapter", config |-> config, tools |-> init.tools]
        tools == get_all_tools(new)
    IN  IF init.raised # NoRaise
        THEN [raised |-> init.raised, msg |-> init.msg, self |-> self]
        ELSE IF tools.raised # NoRaise
        THEN [raised |-> tools.raised, msg |-> tools.msg, self |-> self]
        ELSE [raised |-> NoRaise, msg |-> "",
              self |-> [self EXCEPT
                  !.tools = dict_setitem(@, name,
                                ToolObjects(tools.value, self.calls + 1))]]

\* the history of names first cached
FirstCached(before, after, name) ==
    IF name \in dict_keys(after.tools) /\ name \notin dict_keys(before.tools)
    THEN Append(before.order, name) ELSE before.order

\* await client.register_adapter(name, config)
RegisterAdapter(name, config) ==
    /\ client.phase = "entered"
    /\ client.calls < MaxCalls
    /\ LET r == register_adapter(client, name, config)
           input == [name |-> name, config |-> config]
       IN  /\ client' = [r.self EXCEPT !.calls = @ + 1,
                                       !.order = FirstCached(client, r.self, name)]
           /\ clientOut' = IF r.raised # NoRaise
                           THEN Raised("register_adapter", input, r.raised, r.msg)
                           ELSE Returned("register_adapter", input, NoResponse)
    /\ UNCHANGED <<adapters, succeeded, regOut, adapter, out, listed>>

\* where a connect_to_mcp_server call fails: entering the transport, entering
\* the session, session.initialize(), or nowhere
ConnectFailures == {"stdio_client", "ClientSession", "initialize", "none"}

\* what session.list_tools() does: raises, or lists this many tools
ListToolsOutcomes == {"raise", "0 tools", "1 tool"}

\* _create_crewai_tool(session, mcp_tool): inputSchema is a dict and has no
\* __fields__, so building the field table raises AttributeError
create_crewai_tool(mcp_tool) ==
    [kind |-> "raise", exc |-> "AttributeError",
     msg |-> "'dict' object has no attribute '__fields__'"]

\* _load_crewai_tools(session): the converted tools, [] on any exception
load_crewai_tools(listing) ==
    IF listing = "raise" THEN <<>>
    ELSE IF listing = "0 tools" THEN <<>>
    ELSE IF create_crewai_tool("tool").kind = "raise" THEN <<>>
    ELSE <<"tool">>

\* exit_stack.enter_async_context(resource): the resource is entered and its
\* exit is pushed on the stack
enter_async_context(self, kind, server) ==
    [self EXCEPT
        !.exit_stack = Append(@, [id |-> self.opened + 1, kind |-> kind,
                                  server |-> server]),
        !.opened = @ + 1]

\* connect_to_mcp_server(server_name, ...): the exception raised and the
\* client after it
connect_to_mcp_server(self, server_name, failure, listing) ==
    LET failed(c) == [raised |-> "MCPServerConnectionError",
                      msg |-> "Failed to connect to " \o server_name, self |-> c]
        withTransport == enter_async_context(self, "transport", server_name)
        withSession == enter_async_context(withTransport, "session", server_name)
    IN  CASE failure = "stdio_client" -> failed(self)
          [] failure = "ClientSession" -> failed(withTransport)
          [] failure = "initialize" -> failed(withSession)
          [] OTHER ->
               [raised |-> NoRaise, msg |-> "",
                self |-> [withSession EXCEPT
                    !.sessions = @ \cup {server_name},
                    !.tools = dict_setitem(@, server_name,
                                  ToolObjects(load_crewai_tools(listing),
                                              self.calls + 1))]]

\* await client.connect_to_mcp_server(server_name, command=..., args=...)
ConnectToMCPServer(server_name, failure, listing) ==
    /\ client.phase = "entered"
    /\ client.calls < MaxCalls
    /\ LET r == connect_to_mcp_server(client, server_name, failure, listing)
           input == [name |-> server_name, config |-> AbsentV]
       IN  /\ client' = [r.self EXCEPT !.calls = @ + 1,
                             !.order = FirstCached(client, r.self, server_name)]
           /\ clientOut' = IF r.raised # NoRaise
                           THEN Raised("connect_to_mcp_server", input, r.raised, r.msg)
                           ELSE Returned("connect_to_mcp_server", input, NoResponse)
    /\ UNCHANGED <<adapters, succeeded, regOut, adapter, out, listed>>

\* the server_name argument of get_tools: None, a registered or another name
GetToolsArgs == {PyNone, PyStr("unknown")} \cup {PyStr(n) : n \in ServerNames}

\* get_tools(server_name)
get_tools(self, server_name) ==
    IF Truthy(server_name) THEN dict_get(self.tools, server_name.v, <<>>)
    ELSE dict_values_flat(self.tools)

\* client.get_tools(server_name)
GetTools(server_name) ==
    /\ clientOut' = Returned("get_tools", [name |-> server_name, config |-> AbsentV],
                             get_tools(client, server_name))
    /\ UNCHANGED <<adapters, succeeded, regOut, adapter, out, listed, client>>

\* an aclose that closes only what belongs to a session in self.sessions
aclose_connected(self) ==
    [self EXCEPT
        !.exit_stack = SelectSeq(@, LAMBDA r : r.server \notin self.sessions),
        !.released = @ \cup {self.exit_stack[i].id :
                                i \in {j \in DOMAIN self.exit_stack :
                                         self.exit_stack[j].server \in self.sessions}}]

\* exit_stack.aclose(): every exit pushed on the stack is run
aclose(self) ==
    [self EXCEPT
        !.exit_stack = <<>>,
        !.released = @ \cup {self.exit_stack[i].id : i \in DOMAIN self.exit_stack}]

\* the end of `async with CrewAIAdapterClient() as client`: __aexit__, after
\* the body ran to its end or raised
Exit(exception) ==
    /\ client.phase = "entered"
    /\ client' = [aclose(client) EXCEPT !.phase = "exited"]
    /\ clientOut' = Returned("__aexit__", [name |-> AbsentV, config |-> AbsentV,
                                           exception |-> exception], NoResponse)
    /\ UNCHANGED <<adapters, succeeded, regOut, adapter, out, listed>>

NextClient ==
    \/ \E name \in ServerNames, config \in ClientConfigs : RegisterAdapter(name, config)
    \/ \E name \in ServerNames, failure \in ConnectFailures,
          listing \in ListToolsOutcomes : ConnectToMCPServer(name, failure, listing)
    \/ \E server_name \in GetToolsArgs : GetTools(server_name)
    \/ \E exception \in BOOLEAN : Exit(exception)

SpecClient == Init /\ [][NextClient]_vars

(***************************************************************************)
(* Claims about the tool adapters.                                         *)
(***************************************************************************)
ToolConstruct == out.op = "construct" /\ out.input.cls \in ToolAdapterClasses

ToolExecute == out.op = "execute" /\ adapter.cls \in ToolAdapterClasses

\* "tools" is absent, empty, or a value that is not a sequence
BadToolsValue(t) ==
    \/ t.type = "absent"
    \/ t.type = "list" /\ Len(t.v) = 0
    \/ t.type \notin {"absent", "list"}

\* C3: constructing MCPToolsAdapter or CrewAIToolsAdapter fails with
\* ConfigurationError when the config has no "tools" key, "tools" is empty, or
\* "tools" is not a sequence; no adapter is obtained and no other exception
\* type is raised.
C3_BadToolsRaiseConfigurationError ==
    (ToolConstruct /\ BadToolsValue(out.input.config.tools))
        => /\ out.raised = "ConfigurationError"
           /\ adapter = NoAdapter

\* an entry with a "name" and with a parameter block that is a mapping (or none)
WellFormed(e) ==
    /\ e.name.type = "str"
    /\ DictGetDefault(e.parameters, EmptyDict).type = "dict"

\* the tool representation a well-formed entry registers as
Representation(cls, e) == IF cls = "MCPToolsAdapter" THEN MCPTool(e) ELSE CrewAITool(e)

RECURSIVE WellFormedReps(_, _)
\* the representations of the well-formed entries, in configuration order
WellFormedReps(cls, items) ==
    IF items = <<>> THEN <<>>
    ELSE IF WellFormed(Head(items))
    THEN <<Representation(cls, Head(items))>> \o WellFormedReps(cls, Tail(items))
    ELSE WellFormedReps(cls, Tail(items))

Mixed(items) ==
    /\ \E i \in 1..Len(items) : WellFormed(items[i])
    /\ \E i \in 1..Len(items) : ~WellFormed(items[i])

\* C4: when the "tools" list mixes well-formed entries with bad ones (no
\* "name", or a malformed parameter block), construction of either tool
\* adapter succeeds, every bad entry is skipped, and the tool list holds
\* exactly the well-formed entries in configuration order.
C4_BadEntriesSkipped ==
    (/\ ToolConstruct
     /\ out.input.config.tools.type = "list"
     /\ Mixed(out.input.config.tools.v))
        => /\ out.raised = NoRaise
           /\ adapter.cls = out.input.cls
           /\ adapter.tools = WellFormedReps(out.input.cls, out.input.config.tools.v)

\* execute was called with a non-empty tool_name that no registered tool has
UnknownToolCall ==
    /\ ToolExecute
    /\ out.input.tool_name.type = "str"
    /\ out.input.tool_name.v # ""
    /\ \A i \in 1..Len(adapter.tools) : adapter.tools[i].name # out.input.tool_name.v

\* C5: for both tool adapters, execute(tool_name=n) with n non-empty and no
\* registered tool named exactly n never raises and returns a response with
\* success false, error "Tool <n> not found", data unset and metadata present.
C5_UnknownToolNotFound ==
    UnknownToolCall
        => /\ out.raised = NoRaise
           /\ out.value.type = "AdapterResponse"
           /\ out.value.success = FALSE
           /\ out.value.error = "Tool " \o out.input.tool_name.v \o " not found"
           /\ out.value.data = PyNone
           /\ out.value.metadata.type = "dict"

\* execute(tool_name="nonexistent") has answered on an adapter that holds tools
C5_Witness ==
    /\ UnknownToolCall
    /\ out.input.tool_name.v = "nonexistent"
    /\ Len(adapter.tools) = MaxTools
    /\ out.raised = NoRaise
    /\ out.value.error = "Tool nonexistent not found"

\* execute was called with tool_name absent or empty
MissingNameCall ==
    /\ ToolExecute
    /\ \/ out.input.tool_name.type = "absent"
       \/ out.input.tool_name.type = "str" /\ out.input.tool_name.v = ""

\* C6 as stated: for both tool adapters, execute with tool_name absent or
\* empty does not raise and returns Response(success=false,
\* error="Tool name is required").
C6_MissingNameReturnsResponse ==
    MissingNameCall
        => /\ out.raised = NoRaise
           /\ out.value.type = "AdapterResponse"
           /\ out.value.success = FALSE
           /\ out.value.error = "Tool name is required"

\* C6 amended: for both tool adapters, execute with tool_name absent or empty
\* raises ConfigurationError("Tool name is required") and returns no response.
C6_MissingNameRaises ==
    MissingNameCall
        => /\ out.raised = "ConfigurationError"
           /\ out.msg = "Tool name is required"
           /\ out.value = NoResponse

\* execute(tool_name="") has raised on an adapter that holds tools
C6_Witness ==
    /\ MissingNameCall
    /\ out.input.tool_name.type = "str"
    /\ Len(adapter.tools) > 0
    /\ out.raised = "ConfigurationError"

\* C7: every response returned by execute of MCPToolsAdapter,
\* CrewAIToolsAdapter or ContextProtocolClient satisfies: success = true
\* implies error unset; success = false implies error set and data unset.
C7_ResponseEnvelope ==
    (out.op = "execute" /\ out.raised = NoRaise)
        => /\ out.value.type = "AdapterResponse"
           /\ out.value.success => out.value.error = None
           /\ ~out.value.success =>
                (out.value.error # None /\ out.value.data = PyNone)

\* execute has returned the response of a caught exception
C7_Witness ==
    /\ out.op = "execute"
    /\ out.raised = NoRaise
    /\ adapter.cls = "CrewAIToolsAdapter"
    /\ ~out.value.success
    /\ out.value.error = "boom"

\* the function raises when called with these keyword arguments
FuncRaises(func, kw) == kw.keys # {"a", "b"} \/ func.body = "raise"

\* str(e) of the exception the function then raises
FuncRaisesMsg(func, kw) ==
    CASE kw.keys = {} -> "missing 2 required positional arguments: 'a' and 'b'"
      [] kw.keys = {"x"} -> "got an unexpected keyword argument 'x'"
      [] OTHER -> "boom"

\* the tool execute resolves the call to
CalledTool == adapter.tools[FindTool(adapter.tools, out.input.tool_name)]

\* the keyword arguments execute passes to the tool's function
CalledWith == DictGetDefault(out.input.parameters, KwArgs({}, 0, 0))

\* execute was called on a CrewAIToolsAdapter for a registered tool with a func
FuncCall ==
    /\ out.op = "execute"
    /\ adapter.cls = "CrewAIToolsAdapter"
    /\ Truthy(DictGet(out.input.tool_name))
    /\ FindTool(adapter.tools, out.input.tool_name) # 0
    /\ Truthy(CalledTool.func)

\* C8: for CrewAIToolsAdapter, when the function of a registered tool raises
\* during execute (also when called with parameters it does not accept), the
\* exception does not propagate: execute returns a response with success
\* false and error the exception's message, whose metadata names the tool and
\* the error.
C8_FuncExceptionCaught ==
    (FuncCall /\ FuncRaises(CalledTool.func, CalledWith))
        => /\ out.raised = NoRaise
           /\ out.value.success = FALSE
           /\ out.value.error = FuncRaisesMsg(CalledTool.func, CalledWith)
           /\ out.value.metadata.additional_data.tool = out.input.tool_name.v
           /\ out.value.metadata.additional_data.error = out.value.error

\* a function that raises ValueError("boom") was executed with arguments it accepts
C8_Witness ==
    /\ FuncCall
    /\ CalledTool.func.body = "raise"
    /\ CalledWith.keys = {"a", "b"}
    /\ out.raised = NoRaise
    /\ out.value.error = "boom"

\* what the function computes from the keyword arguments
FuncResult(func, kw) == IF func.body = "add" THEN kw.a + kw.b ELSE kw.a * kw.b

\* C9: for a tool of CrewAIToolsAdapter whose func is synchronous or
\* asynchronous, execute(tool_name, parameters) returns success = true with
\* data the function's result, and invoking the object get_all_tools produced
\* with the same arguments returns the stringified result (add with a=3, b=5
\* gives "8").
C9_RoundTrip ==
    /\ (FuncCall /\ ~FuncRaises(CalledTool.func, CalledWith))
        => /\ out.raised = NoRaise
           /\ out.value.success
           /\ out.value.data = PyInt(FuncResult(CalledTool.func, CalledWith))
    /\ (/\ out.op = "run"
        /\ adapter.cls = "CrewAIToolsAdapter"
        /\ ~FuncRaises(adapter.tools[out.input.index].func, out.input.parameters))
        => /\ out.raised = NoRaise
           /\ out.value = PyStr(IntToStr(FuncResult(adapter.tools[out.input.index].func,
                                                    out.input.parameters)))

\* C10: get_all_tools on either tool adapter never raises and returns one
\* framework tool per registered representation, in registration order, each
\* with the name and description of its representation, also for tools
\* registered without a func.
C10_GetAllToolsTotal ==
    out.op = "get_all_tools"
        => /\ out.raised = NoRaise
           /\ Len(out.value) = Len(adapter.tools)
           /\ \A i \in 1..Len(adapter.tools) :
                /\ out.value[i].name = adapter.tools[i].name
                /\ out.value[i].description = adapter.tools[i].description

\* the descriptor of a framework tool: its name, description and args schema
Descriptor(tool) ==
    [name |-> tool.name, description |-> tool.description,
     args_schema |-> tool.args_schema]

\* two tool lists of the same length whose elements agree pairwise on name,
\* description and args schema
SameDescriptors(xs, ys) ==
    /\ Len(xs) = Len(ys)
    /\ \A i \in 1..Len(xs) : Descriptor(xs[i]) = Descriptor(ys[i])

\* the last call was a get_all_tools that followed an earlier one
ListedAgain ==
    /\ listed # NoOut
    /\ listed.again
    /\ out.op = "get_all_tools"

\* C11: a later get_all_tools call on an adapter, whatever execute calls
\* came between, ends as the first one did, and when both return their
\* lists have the same length and agree pairwise on name, description and
\* args schema
C11_GetAllToolsIdempotent ==
    ListedAgain =>
        /\ out.raised = listed.first.raised
        /\ out.raised = NoRaise => SameDescriptors(listed.first.value, out.value)

\* a second get_all_tools call returned two tools
C11_Witness ==
    /\ ListedAgain
    /\ out.raised = NoRaise
    /\ Len(out.value) = 2

\* s starts with prefix
HasPrefix(s, prefix) ==
    /\ Len(s) >= Len(prefix)
    /\ SubSeq(s, 1, Len(prefix)) = prefix

\* a tool object that get_all_tools produced was invoked
RunCall == out.op = "run"

\* the wrapper of an MCPToolsAdapter tool turns every response with success
\* false that execute gives for these arguments into an ExecutionError
FailedResponseRaises(kw) ==
    \A name \in ExecNames, t \in ClockReadings :
        LET result == MCP_execute(adapter, PyStr(name), kw, t)
        IN  (result.raised = NoRaise /\ ~result.value.success)
                => /\ executor_outcome(name, result).kind = "raise"
                   /\ executor_outcome(name, result).exc = "ExecutionError"

\* C17: invoking a tool object produced by get_all_tools either returns a
\* string or raises ExecutionError whose message carries the tool's name and
\* the underlying message, and nothing else; for a tool of MCPToolsAdapter a
\* response with success false from execute becomes an ExecutionError
C17_ToolInvocationOutcomes ==
    RunCall =>
        /\ \/ out.raised = NoRaise /\ out.value.type = "str"
           \/ /\ out.raised = "ExecutionError"
              /\ HasPrefix(out.msg, "Failed to execute " \o out.input.tool_name.v \o ": ")
              /\ (/\ adapter.cls = "CrewAIToolsAdapter"
                  /\ FuncRaises(adapter.tools[out.input.index].func,
                                out.input.parameters))
                   => out.msg = "Failed to execute " \o out.input.tool_name.v \o ": "
                                \o FuncRaisesMsg(adapter.tools[out.input.index].func,
                                                 out.input.parameters)
        /\ adapter.cls = "MCPToolsAdapter" => FailedResponseRaises(out.input.parameters)

\* invoking the tool made from a func that raises ValueError("boom") raised
\* ExecutionError
C17_Witness ==
    /\ RunCall
    /\ out.raised = "ExecutionError"
    /\ out.msg = "Failed to execute add: boom"

\* the adapter's tools are the ones its constructor registered from the
\* configuration
ToolsAsConstructed ==
    adapter.cls \in ToolAdapterClasses
        => adapter.tools = register_tools(adapter.cls, adapter.config).tools

\* a call on a constructed adapter leaves its tool list as it was
ToolsKeptStep ==
    adapter.cls \in ToolAdapterClasses => adapter'.tools = adapter.tools

\* C18: the tool list of an adapter is fixed at construction: no execute,
\* get_all_tools or tool invocation, whether it returns, fails or raises,
\* adds, removes, reorders or modifies a registered tool representation
C18_ToolListFixed == []ToolsAsConstructed /\ [][ToolsKeptStep]_vars

\* an execute call was answered from the except branch on an adapter with
\* two tools, which it still has
C18_Witness ==
    /\ adapter.cls = "CrewAIToolsAdapter"
    /\ Len(adapter.tools) = 2
    /\ out.op = "execute"
    /\ out.raised = NoRaise
    /\ out.value.error = "boom"

\* C19: no two registered tool representations of an adapter share a name
C19_UniqueToolNames ==
    adapter.cls \in ToolAdapterClasses
        => \A i, j \in 1..Len(adapter.tools) :
               adapter.tools[i].name = adapter.tools[j].name => i = j

\* execute returned a response
ExecuteReturned ==
    /\ out.op = "execute"
    /\ out.raised = NoRaise

\* C15: every response execute returns with metadata has a timestamp, a
\* non-negative duration and the class name of the adapter that produced it
\* as source; the two tool adapters put metadata on every response they
\* return, not-found and caught-exception responses included
C15_MetadataContract ==
    ExecuteReturned =>
        /\ out.value.metadata # PyNone =>
             /\ out.value.metadata.timestamp \in STRING
             /\ out.value.metadata.timestamp # ""
             /\ out.value.metadata.duration >= 0
             /\ out.value.metadata.source = adapter.cls
        /\ adapter.cls \in ToolAdapterClasses => out.value.metadata # PyNone

\* a not-found response whose metadata was built one tick after the call began
C15_Witness ==
    /\ ExecuteReturned
    /\ adapter.cls = "MCPToolsAdapter"
    /\ out.value.error = "Tool nonexistent not found"
    /\ out.value.metadata # PyNone
    /\ out.value.metadata.duration = 1

\* the constructor of ContextProtocolClient was called
ContextConstruct ==
    /\ out.op = "construct"
    /\ out.input.cls = "ContextProtocolClient"

\* the configuration lacks a required field or its context_size is not an int
BadContextConfig(config) ==
    \/ config.model_name.type = "absent"
    \/ config.context_size.type # "int"

\* execute was called on a ContextProtocolClient
ContextExecute ==
    /\ out.op = "execute"
    /\ adapter.cls = "ContextProtocolClient"

\* the context execute was given
OriginalContext == DictGetDefault(out.input.context, PyStr(""))

\* C16: constructing ContextProtocolClient without model_name, without
\* context_size or with a context_size that is not an integer raises
\* ConfigurationError, and any other construction succeeds; execute then
\* never raises and returns success = true with the context cut to at most
\* context_size characters and truncated true exactly when the original
\* context is longer than context_size
C16_ContextClient ==
    /\ ContextConstruct =>
         out.raised = IF BadContextConfig(out.input.config)
                      THEN "ConfigurationError" ELSE NoRaise
    /\ ContextExecute =>
         /\ out.raised = NoRaise
         /\ out.value.success
         /\ Len(out.value.data.v.context) <= adapter.config.context_size.v
         /\ out.value.data.v.truncated
              <=> Len(OriginalContext.v) > adapter.config.context_size.v

(***************************************************************************)
(* Claims about CrewAIAdapterClient.                                       *)
(***************************************************************************)
\* every entry of the configuration's "tools" list carries name, description
\* and parameters
EntriesCarryFields(config) ==
    /\ config.tools.type = "list"
    /\ \A i \in 1..Len(config.tools.v) :
         /\ config.tools.v[i].name.type = "str"
         /\ config.tools.v[i].description.type = "str"
         /\ config.tools.v[i].parameters.type = "dict"

\* the last call was register_adapter with such a configuration
RegisteredWellFormed ==
    /\ clientOut.op = "register_adapter"
    /\ EntriesCarryFields(clientOut.input.config)

\* get_tools(name) returns the tools of exactly the configuration's entries
CachedFromConfig(name, config) ==
    LET tools == get_tools(client, PyStr(name))
    IN  /\ Len(tools) = Len(config.tools.v)
        /\ \A i \in 1..Len(tools) : tools[i].tool.name = config.tools.v[i].name.v

\* get_tools(name) returns the list cached under the name, or the empty list
CachedOrEmpty(name) ==
    get_tools(client, PyStr(name)) = dict_get(client.tools, name, <<>>)

\* C12: register_adapter(name, config) with k entries that carry name,
\* description and parameters returns, and get_tools(name) then returns
\* exactly those k tools; for every string name get_tools(name) returns the
\* list cached under that name, the empty list if there is none
C12_ClientCache ==
    /\ RegisteredWellFormed =>
         /\ clientOut.raised = NoRaise
         /\ CachedFromConfig(clientOut.input.name, clientOut.input.config)
    /\ \A name \in ServerNames \cup {"unknown"} : CachedOrEmpty(name)

RECURSIVE CachedInOrder(_)
\* the cached lists of the names given, one after the other
CachedInOrder(names) ==
    IF names = <<>> THEN <<>>
    ELSE dict_get(client.tools, Head(names), <<>>) \o CachedInOrder(Tail(names))

\* the tool objects the cache holds
CachedObjects ==
    UNION {{client.tools[i].value[j] : j \in DOMAIN client.tools[i].value} :
              i \in DOMAIN client.tools}

\* the last call was get_tools without an argument
FlattenCall ==
    /\ clientOut.op = "get_tools"
    /\ clientOut.input.name = PyNone

\* C13: get_tools() returns the cached lists concatenated in the order their
\* names were first registered, and every cached tool exactly once
C13_FlattenInRegistrationOrder ==
    FlattenCall =>
        /\ clientOut.value = CachedInOrder(client.order)
        /\ \A t \in CachedObjects :
             Cardinality({i \in DOMAIN clientOut.value : clientOut.value[i] = t}) = 1
        /\ \A i \in DOMAIN clientOut.value : clientOut.value[i] \in CachedObjects

\* get_tools() after two names were cached and the first of them was
\* registered again by the third call
C13_Witness ==
    /\ FlattenCall
    /\ Len(client.order) = 2
    /\ Len(clientOut.value) >= 3
    /\ clientOut.value[1].id[1] = 3
    /\ clientOut.value[Len(clientOut.value)].id[1] = 2

\* the resources on the exit stack, not yet closed
OpenResources == {client.exit_stack[i].id : i \in DOMAIN client.exit_stack}

\* C14: until the client is exited every transport and session opened
\* through it stays open and none is released; once it is exited, normally
\* or by an exception, every one of them has been released and none is open,
\* those of a failed connect_to_mcp_server call included
C14_ScopedCleanup ==
    /\ client.phase = "entered" =>
         /\ client.released = {}
         /\ OpenResources = 1..client.opened
    /\ client.phase = "exited" =>
         /\ OpenResources = {}
         /\ client.released = 1..client.opened

\* the client was exited by an exception after one connect succeeded and
\* another failed with its transport open
C14_Witness ==
    /\ client.phase = "exited"
    /\ clientOut.op = "__aexit__"
    /\ clientOut.input.exception
    /\ client.sessions # {}
    /\ client.opened = 3
    /\ client.released = {1, 2, 3}

====
